---- MODULE Spec2Model ----
(***************************************************************************)
(* Page-replacement tables of src/main.cpp: fifo_table (a deque in arrival *)
(* order) and lru_table (an unordered_map page -> time counter).  One      *)
(* behaviour is one trial: an instance of one of the two classes is        *)
(* constructed with some capacity and load_page is then called on it once  *)
(* per page reference.                                                     *)
(***************************************************************************)
EXTENDS Integers, Sequences, FiniteSets, TLC

\* Largest capacity an instance is constructed with (capacities 0..MaxCap).
MaxCap == 3
\* Largest number of load_page calls made on one instance.
MaxRefs == 5
\* The page values fed to load_page: ints, among them the value -1 that
\* load_page also uses for "no page replaced", and 0 (as in pageTestSet).
Pages == {-1, 0, 1, 2, 3, 4}

VARIABLES
    table,              \* "fifo" or "lru": the class of the instance under trial
    _capacity,          \* size_t _capacity of the instance
    _pageQueue,         \* fifo_table::_pageQueue, front first
    _pageMap,           \* lru_table::_pageMap, page -> time counter
    _page_fault_count,  \* int _page_fault_count of the instance
    result,             \* the pair returned by the last load_page call
    removed,            \* the pages the last load_page call took out of the container
    loaded,             \* the pages passed to load_page so far, in call order
    arrival             \* page -> number of the call that last faulted it in

vars == <<table, _capacity, _pageQueue, _pageMap, _page_fault_count,
          result, removed, loaded, arrival>>

\* The set of elements of a sequence.
Range(s) == {s[i] : i \in 1..Len(s)}

\* The function with the empty domain (an empty unordered_map).
EmptyMap == [k \in {} |-> 0]

\* Bookkeeping of the properties: page was faulted in by call number n.
Arrived(map, page, n) ==
    [k \in DOMAIN map \cup {page} |-> IF k = page THEN n ELSE map[k]]

\* std::make_pair(false, -1): the value load_page starts its result from.
NoPage == -1
make_pair(first, second) == [first |-> first, second |-> second]

-----------------------------------------------------------------------------
(* fifo_table *)

\* fifo_table(size_t capacity): stores the capacity, nothing is checked.
fifo_table(capacity) ==
    /\ table = "fifo"
    /\ _capacity = capacity
    /\ _pageQueue = <<>>
    /\ _pageMap = EmptyMap
    /\ _page_fault_count = 0
    /\ result = make_pair(FALSE, NoPage)
    /\ removed = {}
    /\ loaded = <<>>
    /\ arrival = EmptyMap

\* std::find(_pageQueue.begin(), _pageQueue.end(), page) != _pageQueue.end()
fifo_find_skips_front(queue, page) == \E i \in 2..Len(queue) : queue[i] = page
fifo_find(queue, page) == \E i \in 1..Len(queue) : queue[i] = page

\* _pageQueue.push_back(page)
push_back(queue, page) == Append(queue, page)

\* _pageQueue.front()
front(queue) == Head(queue)

\* _pageQueue.pop_front()
pop_back(queue) == SubSeq(queue, 1, Len(queue) - 1)
pop_nothing(queue) == queue
pop_front(queue) == Tail(queue)

\* _pageQueue.size() > _capacity
fifo_over_capacity_at_capacity(size, capacity) == size >= capacity
fifo_over_capacity(size, capacity) == size > capacity

\* _page_fault_count++
count_forgotten(count) == count
increment(count) == count + 1

\* fifo_table::get_page_list(): a copy of the deque, front first.
fifo_get_page_list == _pageQueue

\* fifo_table::load_page(page)
fifo_load_page(page) ==
    /\ table = "fifo"
    /\ Len(loaded) < MaxRefs
    /\ loaded' = Append(loaded, page)
    /\ IF ~fifo_find(_pageQueue, page)
         THEN LET pushed == push_back(_pageQueue, page) IN
              /\ _page_fault_count' = increment(_page_fault_count)
              /\ IF fifo_over_capacity(Len(pushed), _capacity)
                   THEN /\ result' = make_pair(TRUE, front(pushed))
                        /\ _pageQueue' = pop_front(pushed)
                   ELSE /\ result' = make_pair(TRUE, NoPage)
                        /\ _pageQueue' = pushed
              /\ removed' = Range(pushed) \ Range(_pageQueue')
              /\ arrival' = Arrived(arrival, page, Len(loaded'))
         ELSE /\ result' = make_pair(FALSE, NoPage)
              /\ removed' = {}
              /\ UNCHANGED <<_pageQueue, _page_fault_count, arrival>>
    /\ UNCHANGED <<table, _capacity, _pageMap>>

-----------------------------------------------------------------------------
(* lru_table *)

\* lru_table(size_t capacity): stores the capacity, nothing is checked.
lru_table(capacity) ==
    /\ table = "lru"
    /\ _capacity = capacity
    /\ _pageQueue = <<>>
    /\ _pageMap = EmptyMap
    /\ _page_fault_count = 0
    /\ result = make_pair(FALSE, NoPage)
    /\ removed = {}
    /\ loaded = <<>>
    /\ arrival = EmptyMap

\* _pageMap.find(page) != _pageMap.end()
lru_find_never(map, page) == FALSE
lru_find(map, page) == page \in DOMAIN map

\* _pageMap.insert(std::make_pair(page, 0)): no effect when the key exists.
map_insert(map, page, time) ==
    [k \in DOMAIN map \cup {page} |-> IF k \in DOMAIN map THEN map[k] ELSE time]

\* _pageMap[page] = 0: creates the key when it does not exist.
assign_no_reset(map, page, time) ==
    [k \in DOMAIN map \cup {page} |-> IF k \in DOMAIN map THEN map[k] ELSE time]
map_assign(map, page, time) ==
    [k \in DOMAIN map \cup {page} |-> IF k = page THEN time ELSE map[k]]

\* for(auto& keyValuePair : _pageMap) keyValuePair.second += 1;
increment_others_only(map) == [k \in DOMAIN map |-> IF map[k] = 0 THEN 0 ELSE map[k] + 1]
increment_copies(map) == map
increment_all(map) == [k \in DOMAIN map |-> map[k] + 1]

\* std::max_element(begin, end, max.second < kvp.second): the first element,
\* in the map's iteration order, that no element exceeds.  An unordered_map
\* iterates in an unspecified order, so any element of greatest time may be
\* the one found.
min_element(map) == {k \in DOMAIN map : \A j \in DOMAIN map : map[k] <= map[j]}
max_element(map) == {k \in DOMAIN map : \A j \in DOMAIN map : map[j] <= map[k]}

\* _pageMap.erase(maxElement)
map_erase(map, page) == [k \in DOMAIN map \ {page} |-> map[k]]

\* _pageMap.size() > _capacity
lru_over_capacity_off_by_one(size, capacity) == size > capacity + 1
lru_over_capacity(size, capacity) == size > capacity

\* lru_table::get_page_list(): one entry per key of the map, in the map's
\* iteration order; only the pages it holds and their number are modelled.
lru_get_page_list == DOMAIN _pageMap

\* lru_table::load_page(page)
lru_load_page(page) ==
    /\ table = "lru"
    /\ Len(loaded) < MaxRefs
    /\ loaded' = Append(loaded, page)
    /\ LET found    == lru_find(_pageMap, page)
           inserted == IF found THEN _pageMap ELSE map_insert(_pageMap, page, 0)
           touched  == map_assign(inserted, page, 0)
           aged     == increment_all(touched)
       IN /\ _page_fault_count' =
                IF found THEN _page_fault_count ELSE increment(_page_fault_count)
          /\ IF lru_over_capacity(Cardinality(DOMAIN aged), _capacity)
               THEN \E maxElement \in max_element(aged) :
                      /\ result' = make_pair(~found, maxElement)
                      /\ _pageMap' = map_erase(aged, maxElement)
               ELSE /\ result' = make_pair(~found, NoPage)
                    /\ _pageMap' = aged
          /\ removed' = DOMAIN aged \ DOMAIN _pageMap'
          /\ arrival' = IF found THEN arrival ELSE Arrived(arrival, page, Len(loaded'))
    /\ UNCHANGED <<table, _capacity, _pageQueue>>

-----------------------------------------------------------------------------
(* A trial: construct one instance, then call load_page on it. *)

Init ==
    \E capacity \in 0..MaxCap : fifo_table(capacity) \/ lru_table(capacity)

Next ==
    \E page \in Pages : fifo_load_page(page) \/ lru_load_page(page)

Spec == Init /\ [][Next]_vars

-----------------------------------------------------------------------------
(* The same code as functions of the instance, for runs of other instances *)

\* The fields of an instance and the pair its last load_page returned.
Instance(queue, map, count, res) ==
    [_pageQueue |-> queue, _pageMap |-> map, _page_fault_count |-> count,
     result |-> res]

\* A freshly constructed instance of either class.
Fresh == Instance(<<>>, EmptyMap, 0, make_pair(FALSE, NoPage))

\* fifo_table::load_page(page) on instance inst: the instance it leaves.
fifo_load_page_on(inst, capacity, page) ==
    IF ~fifo_find(inst._pageQueue, page)
      THEN LET pushed == push_back(inst._pageQueue, page)
               count  == increment(inst._page_fault_count)
           IN IF fifo_over_capacity(Len(pushed), capacity)
                THEN {Instance(pop_front(pushed), inst._pageMap, count,
                               make_pair(TRUE, front(pushed)))}
                ELSE {Instance(pushed, inst._pageMap, count,
                               make_pair(TRUE, NoPage))}
      ELSE {Instance(inst._pageQueue, inst._pageMap, inst._page_fault_count,
                     make_pair(FALSE, NoPage))}

\* lru_table::load_page(page) on instance inst: the instances it can leave,
\* one for each element max_element can find.
lru_load_page_on(inst, capacity, page) ==
    LET found    == lru_find(inst._pageMap, page)
        inserted == IF found THEN inst._pageMap
                             ELSE map_insert(inst._pageMap, page, 0)
        touched  == map_assign(inserted, page, 0)
        aged     == increment_all(touched)
        count    == IF found THEN inst._page_fault_count
                             ELSE increment(inst._page_fault_count)
    IN IF lru_over_capacity(Cardinality(DOMAIN aged), capacity)
         THEN {Instance(inst._pageQueue, map_erase(aged, maxElement), count,
                        make_pair(~found, maxElement)) :
                  maxElement \in max_element(aged)}
         ELSE {Instance(inst._pageQueue, aged, count, make_pair(~found, NoPage))}

\* run_trial: a fresh instance of class kind and the given capacity after
\* load_page has been called on it for each page of refs in order; the set
\* of the instances the run can end in.
RECURSIVE run_trial(_, _, _)
run_trial(kind, capacity, refs) ==
    IF refs = <<>>
      THEN {Fresh}
      ELSE LET before == run_trial(kind, capacity, SubSeq(refs, 1, Len(refs) - 1))
               page   == refs[Len(refs)]
           IN UNION {IF kind = "fifo"
                       THEN fifo_load_page_on(inst, capacity, page)
                       ELSE lru_load_page_on(inst, capacity, page) :
                     inst \in before}

\* std::array<int, 33> pageTestSet of main.
pageTestSet ==
    <<1, 1, 1, 1, 0, 3, 1, 1, 3, 5, 1, 8, 1, 3, 5, 13,
      15, 6, 1, 1, 3, 6, 7, 8, 9, 3, 1, 1, 4, 4, 4, 1, 2>>

\* std::array<size_t, 3> residentSetSizes of main.
residentSetSizes == {3, 5, 7}

\* The fault counts main can print for a class and a resident set size.
main_fault_counts(kind, rss) ==
    {inst._page_fault_count : inst \in run_trial(kind, rss, pageTestSet)}

-----------------------------------------------------------------------------
(* Vocabulary of the properties *)

\* The pages the instance holds.
Resident == IF table = "fifo" THEN Range(_pageQueue) ELSE DOMAIN _pageMap

\* The number of entries get_page_list() returns.
PageListSize ==
    IF table = "fifo" THEN Len(fifo_get_page_list) ELSE Cardinality(lru_get_page_list)

\* A load_page call has returned; LastPage is the page it was given.
Called == Len(loaded) > 0
LastPage == loaded[Len(loaded)]

-----------------------------------------------------------------------------
(* Properties *)

\* C1: for both tables, after every load_page call the number of pages
\* get_page_list() returns is at most the capacity.
C1_CapacityBound == PageListSize <= _capacity

\* C1 case: a full lru_table after a call that replaced a page.
C1_Witness ==
    /\ table = "lru" /\ _capacity >= 2
    /\ removed # {}
    /\ PageListSize = _capacity

\* C2: the fault count starts at 0 and every load_page(p) adds exactly 1 to it
\* when p was not held before the call and 0 otherwise (so it never
\* decreases); the returned flag is true exactly when the count was increased.
C2_FaultStep ==
    /\ _page_fault_count' =
          _page_fault_count + (IF LastPage' \in Resident THEN 0 ELSE 1)
    /\ result'.first = (_page_fault_count' # _page_fault_count)

C2_FaultCount == (_page_fault_count = 0) /\ [][C2_FaultStep]_vars

\* C2 case: a hit after two faults on a fifo_table.
C2_Witness ==
    /\ table = "fifo" /\ Called
    /\ ~result.first
    /\ _page_fault_count >= 2

\* The resident page of a fifo_table that was faulted in earliest.
EarliestArrival ==
    CHOOSE p \in Range(_pageQueue) :
        \A q \in Range(_pageQueue) : arrival[p] <= arrival[q]

\* C3: a faulting load_page(p) on a fifo_table that holds capacity >= 1 pages
\* returns the front of the queue, which is the page faulted in earliest, and
\* leaves the old queue without its front and with p at the back; loading
\* 1,2,3,4 at capacity 3 evicts 1 on the 4th load and leaves 2,3,4.
C3_EvictStep ==
    (/\ table = "fifo" /\ _capacity >= 1
     /\ Len(_pageQueue) = _capacity
     /\ result'.first)
    => /\ result'.second = Head(_pageQueue)
       /\ result'.second = EarliestArrival
       /\ removed' = {Head(_pageQueue)}
       /\ _pageQueue' = Append(Tail(_pageQueue), LastPage')

C3_Example ==
    (table = "fifo" /\ _capacity = 3 /\ loaded = <<1, 2, 3, 4>>)
    => /\ result = make_pair(TRUE, 1)
       /\ _pageQueue = <<2, 3, 4>>

C3_FifoEviction == [][C3_EvictStep]_vars /\ []C3_Example

\* C3 case: the 4th load of 1,2,3,4 at capacity 3 has replaced a page.
C3_Witness ==
    /\ table = "fifo" /\ _capacity = 3
    /\ loaded = <<1, 2, 3, 4>>
    /\ removed # {}

\* C4: load_page(p) on a fifo_table that holds p returns (false, -1) and
\* leaves the queue and the fault count as they were; loading 1,2,3,1,4 at
\* capacity 3 evicts 1 on the 5th load.
C4_HitStep ==
    (table = "fifo" /\ LastPage' \in Range(_pageQueue))
    => /\ result' = make_pair(FALSE, NoPage)
       /\ _pageQueue' = _pageQueue
       /\ _page_fault_count' = _page_fault_count

C4_Example ==
    (table = "fifo" /\ _capacity = 3 /\ loaded = <<1, 2, 3, 1, 4>>)
    => /\ result = make_pair(TRUE, 1)
       /\ _pageQueue = <<2, 3, 4>>

C4_FifoHit == [][C4_HitStep]_vars /\ []C4_Example

\* C4 case: the 5th load of 1,2,3,1,4 at capacity 3 has replaced a page.
C4_Witness ==
    /\ table = "fifo" /\ _capacity = 3
    /\ loaded = <<1, 2, 3, 1, 4>>
    /\ removed # {}

\* The number of the last call that referenced page p.
LastRef(p) ==
    CHOOSE i \in 1..Len(loaded) :
        loaded[i] = p /\ \A j \in (i + 1)..Len(loaded) : loaded[j] # p

\* s without its entries equal to p.
Without(s, p) == SelectSeq(s, LAMBDA x : x # p)

\* A reference LRU of the given capacity, kept as a list of pages ordered by
\* last access (least recent first), after the references refs: a hit moves
\* the page to the back, a miss appends it and then drops the front when the
\* list is longer than the capacity.  The result is written as load_page
\* writes it: (faulted, page dropped or -1).
RECURSIVE RefLru(_, _)
RefLru(refs, capacity) ==
    IF refs = <<>>
      THEN [list |-> <<>>, result |-> make_pair(FALSE, NoPage), dropped |-> {}]
      ELSE LET before == RefLru(SubSeq(refs, 1, Len(refs) - 1), capacity).list
               p      == refs[Len(refs)]
               hit    == p \in Range(before)
               moved  == Append(Without(before, p), p)
           IN IF hit
                THEN [list |-> moved, result |-> make_pair(FALSE, NoPage),
                      dropped |-> {}]
                ELSE IF Len(moved) > capacity
                       THEN [list |-> Tail(moved),
                             result |-> make_pair(TRUE, Head(moved)),
                             dropped |-> {Head(moved)}]
                       ELSE [list |-> moved, result |-> make_pair(TRUE, NoPage),
                             dropped |-> {}]

\* C5: with capacity >= 1 an lru_table returns on every call what the
\* reference LRU list returns, removes the page it removes and holds the pages
\* it holds; a page it removes was last referenced before every page it
\* keeps; loading 1,2,3,1,4 at capacity 3 evicts 2 on the 5th load.
C5_LruRefinement ==
    (table = "lru" /\ _capacity >= 1)
    => LET ref == RefLru(loaded, _capacity) IN
       /\ result = ref.result
       /\ removed = ref.dropped
       /\ DOMAIN _pageMap = Range(ref.list)
       /\ \A v \in removed : \A q \in DOMAIN _pageMap : LastRef(v) < LastRef(q)
       /\ (_capacity = 3 /\ loaded = <<1, 2, 3, 1, 4>>)
             => result = make_pair(TRUE, 2)

\* C5 case: the 5th load of 1,2,3,1,4 at capacity 3 has replaced a page.
C5_Witness ==
    /\ table = "lru" /\ _capacity = 3
    /\ loaded = <<1, 2, 3, 1, 4>>
    /\ removed # {}

\* C6: for both tables, load_page(p) for a page p the table holds returns
\* (false, -1), leaves the fault count unchanged and removes no page.
C6_ResidentStep ==
    (LastPage' \in Resident)
    => /\ result' = make_pair(FALSE, NoPage)
       /\ _page_fault_count' = _page_fault_count
       /\ removed' = {}
       /\ Resident' = Resident

C6_ResidentLoad == [][C6_ResidentStep]_vars

\* C6 case: a full lru_table loaded with the same page twice in a row.
C6_Witness ==
    /\ table = "lru" /\ _capacity >= 2
    /\ PageListSize = _capacity
    /\ Len(loaded) >= 2
    /\ loaded[Len(loaded) - 1] = LastPage
    /\ ~result.first

\* C7, as claimed: after a load_page(p) on an lru_table that leaves p in the
\* map, the counter of p is 0 and no other page has counter 0.
C7_CounterZero ==
    (table = "lru" /\ Called /\ LastPage \in DOMAIN _pageMap)
    => /\ _pageMap[LastPage] = 0
       /\ \A q \in DOMAIN _pageMap \ {LastPage} : _pageMap[q] # 0

\* C7, amended: after a load_page(p) on an lru_table that leaves p in the
\* map, the counter of p is 1 and no other page has counter 1.
C7_CounterOne ==
    (table = "lru" /\ Called /\ LastPage \in DOMAIN _pageMap)
    => /\ _pageMap[LastPage] = 1
       /\ \A q \in DOMAIN _pageMap \ {LastPage} : _pageMap[q] # 1

\* C7 case: a hit on an lru_table that holds other pages too.
C7_Witness ==
    /\ table = "lru" /\ Called
    /\ ~result.first
    /\ LastPage \in DOMAIN _pageMap
    /\ Cardinality(DOMAIN _pageMap) >= 3

\* C8: for both tables and every page value, a load_page call that faults
\* returns -1 as the replaced page exactly when it removed no page.
C8_NoneIffNothingRemoved ==
    (Called /\ result.first) => (result.second = NoPage <=> removed = {})

\* C9: no instance of capacity 0 exists on which load_page has been called.
C9_ZeroCapacityRejected == ~(_capacity = 0 /\ Called)

\* C10: on an instance of capacity 0 every load_page(p) faults, returns p as
\* the replaced page, adds 1 to the fault count and leaves the table empty.
C10_ZeroStep ==
    (_capacity = 0)
    => /\ result' = make_pair(TRUE, LastPage')
       /\ _page_fault_count' = _page_fault_count + 1
       /\ removed' = {LastPage'}
       /\ Resident' = {}
       /\ PageListSize' = 0

C10_ZeroCapacity == [][C10_ZeroStep]_vars

\* C10 case: an lru_table of capacity 0 loaded with the same page twice.
C10_Witness ==
    /\ table = "lru" /\ _capacity = 0
    /\ Len(loaded) = 2 /\ loaded[1] = loaded[2]
    /\ _page_fault_count = 2

\* The instance under trial, as a record.
This == Instance(_pageQueue, _pageMap, _page_fault_count, result)

\* The pages an instance record holds.
ResidentOf(inst) == Range(inst._pageQueue) \cup DOMAIN inst._pageMap

\* C11: for each class, any two fresh instances of the same capacity fed the
\* same references agree, after every call, on the pair returned, on the set
\* of pages held and on the fault count (the trial under way being one such
\* run); a fresh instance of capacity 3 run over main's 33 references ends
\* with one fault count per class (20 for fifo_table, 19 for lru_table).
C11_Deterministic ==
    LET runs == run_trial(table, _capacity, loaded) IN
    /\ This \in runs
    /\ \A a, b \in runs :
          /\ a.result = b.result
          /\ ResidentOf(a) = ResidentOf(b)
          /\ a._page_fault_count = b._page_fault_count
    /\ (loaded = <<>> /\ _capacity = 3)
       => main_fault_counts(table, 3) = (IF table = "fifo" THEN {20} ELSE {19})

\* C11 case: an lru_table that has replaced pages in several calls.
C11_Witness ==
    /\ table = "lru" /\ _capacity = 2
    /\ Len(loaded) >= 4
    /\ _page_fault_count >= 4
    /\ removed # {}

\* C12: the queue of a fifo_table never holds the same page twice.
C12_NoDuplicates ==
    (table = "fifo")
    => \A i, j \in 1..Len(_pageQueue) : _pageQueue[i] = _pageQueue[j] => i = j

\* C12 case: a full fifo_table that has replaced a page and then was loaded
\* with a page it holds.
C12_Witness ==
    /\ table = "fifo" /\ _capacity >= 2
    /\ Len(_pageQueue) = _capacity
    /\ _page_fault_count > _capacity
    /\ Called /\ ~result.first

\* A load_page(p) on an lru_table adds exactly 1 to the counter of every page
\* other than p that the map holds before and after the call.
C13_AgeStep ==
    (table = "lru")
    => \A q \in (DOMAIN _pageMap \cap DOMAIN _pageMap') \ {LastPage'} :
          _pageMap'[q] = _pageMap[q] + 1

\* The counters of an lru_table are the integers 0, 1, 2, ... without gaps.
C13_NoGaps ==
    (table = "lru")
    => {_pageMap[q] : q \in DOMAIN _pageMap} = 0..(Cardinality(DOMAIN _pageMap) - 1)

\* The counters of an lru_table are the integers 1, 2, 3, ... without gaps.
C13_NoGapsFromOne ==
    (table = "lru")
    => {_pageMap[q] : q \in DOMAIN _pageMap} = 1..Cardinality(DOMAIN _pageMap)

\* C13, as claimed: each load_page(p) on an lru_table adds exactly 1 to the
\* counter of every other page held before and after the call, and after
\* every call the counters are consecutive integers from 0 without gaps.
C13_Consecutive == [][C13_AgeStep]_vars /\ []C13_NoGaps

\* The counter of every page of an lru_table is 1 plus the number of calls
\* made since the page was last referenced.
C13_CallsSinceLastRef ==
    (table = "lru")
    => \A q \in DOMAIN _pageMap :
          /\ q \in Range(loaded)
          /\ _pageMap[q] = Len(loaded) - LastRef(q) + 1

\* C13, amended: each load_page(p) on an lru_table adds exactly 1 to the
\* counter of every other page held before and after the call, and after
\* every call the counter of each page held is 1 plus the number of calls made
\* since its last reference (counters grow from 1 in order of recency, gaps
\* allowed).
C13_Recency == [][C13_AgeStep]_vars /\ []C13_CallsSinceLastRef

\* C13 case: an lru_table whose counters have a gap: two pages, one of them
\* loaded three times in a row.
C13_Witness ==
    /\ table = "lru"
    /\ Cardinality(DOMAIN _pageMap) = 2
    /\ \E q \in DOMAIN _pageMap : _pageMap[q] >= 4

\* C14: with capacity >= 1, for both tables, a load_page(p) removes at most
\* one page, removes one only when it faulted and the table held capacity
\* pages (so the insertion made it capacity + 1), the page removed was held
\* before the call and is not p, and p is held after the call.
C14_InsertThenEvictStep ==
    (_capacity >= 1)
    => /\ Cardinality(removed') <= 1
       /\ removed' = Resident \ Resident'
       /\ removed' # {} => (result'.first /\ PageListSize = _capacity)
       /\ removed' \subseteq Resident \ {LastPage'}
       /\ LastPage' \in Resident'

C14_InsertThenEvict == [][C14_InsertThenEvictStep]_vars

\* C14 case: a fifo_table of capacity 1 that has replaced its page twice.
C14_Witness ==
    /\ table = "fifo" /\ _capacity = 1
    /\ _page_fault_count = 3
    /\ removed # {}

\* C15: the counters of an lru_table are pairwise distinct in every state, so
\* whatever page is loaded next, max_element has one element to find and the
\* call has one outcome whatever the iteration order of the map.
C15_DistinctCounters ==
    (table = "lru")
    => /\ \A p, q \in DOMAIN _pageMap : _pageMap[p] = _pageMap[q] => p = q
       /\ \A page \in Pages :
             Cardinality(lru_load_page_on(This, _capacity, page)) = 1

\* C15 case: a full lru_table of capacity 3 that has replaced a page.
C15_Witness ==
    /\ table = "lru" /\ _capacity = 3
    /\ Cardinality(DOMAIN _pageMap) = 3
    /\ removed # {}

\* The smaller of two numbers.
Min(a, b) == IF a <= b THEN a ELSE b

\* With capacity >= 1 the number of pages held does not decrease in a call
\* and stays at the capacity once it has reached it.
C16_SizeStep ==
    (_capacity >= 1)
    => /\ PageListSize' >= PageListSize
       /\ PageListSize = _capacity => PageListSize' = _capacity

\* With capacity >= 1 the number of pages held is the smaller of the capacity
\* and the number of distinct pages referenced so far.
C16_SizeIsMin ==
    (_capacity >= 1)
    => PageListSize = Min(_capacity, Cardinality(Range(loaded)))

\* C16: for both tables with capacity >= 1, the number of pages held never
\* decreases from call to call, is min(capacity, distinct pages referenced so
\* far) after every call, and stays at the capacity once it has reached it.
C16_SizeGrowth == [][C16_SizeStep]_vars /\ []C16_SizeIsMin

\* C16 case: a full lru_table of capacity 2 after references to 3 or more
\* distinct pages, the last one a hit.
C16_Witness ==
    /\ table = "lru" /\ _capacity = 2
    /\ PageListSize = 2
    /\ Cardinality(Range(loaded)) >= 3
    /\ Called /\ ~result.first

\* C17: after every call an lru_table of capacity k >= 1 holds a subset of
\* the pages an lru_table of capacity k + 1 holds after the same references,
\* and has at least as many faults; run from fresh instances over main's 33
\* references, the lru fault count does not grow with the resident set size
\* over main's sizes 3, 5, 7.
C17_Inclusion ==
    /\ (table = "lru" /\ _capacity >= 1)
       => \A larger \in run_trial("lru", _capacity + 1, loaded) :
             /\ DOMAIN _pageMap \subseteq DOMAIN larger._pageMap
             /\ larger._page_fault_count <= _page_fault_count
    /\ (table = "lru" /\ _capacity = 3 /\ loaded = <<>>)
       => \A small, large \in residentSetSizes :
             small < large
             => \A fs \in main_fault_counts("lru", small),
                   fl \in main_fault_counts("lru", large) : fl <= fs

\* C17 case: an lru_table of capacity 2 that has replaced a page and has more
\* faults than the instance of capacity 3 has after the same references.
C17_Witness ==
    /\ table = "lru" /\ _capacity = 2
    /\ removed # {}
    /\ \E larger \in run_trial("lru", 3, loaded) :
          /\ larger._page_fault_count < _page_fault_count
          /\ DOMAIN _pageMap # DOMAIN larger._pageMap

====
